---- MODULE Spec2Model ----
(***************************************************************************)
(* blist: an in-memory list of versioned items kept in a B-tree            *)
(* (github.com/google/btree, degree 2) behind one RWMutex.                 *)
(*                                                                         *)
(* The tree is modelled with its nodes: a node holds a slice of items and  *)
(* a slice of children, as in the library, because List.Exp deletes from   *)
(* the tree inside the callback of a running iteration, and what that does *)
(* depends on the nodes the iteration is standing on.                      *)
(***************************************************************************)
EXTENDS Integers, Sequences, FiniteSets, TLC

\* ------------------------------------------------------------------ bounds
MaxVer == 3
MaxVal == 2
MaxAlloc == 3
MaxTreeVer == 4
MaxTreeAlloc == 4
MaxReadVer == 5
MaxScript == 5
MaxProcs == 2
MaxCalls == 3
MaxConcVer == 2

Versions == 1..MaxVer
Values == 1..MaxVal
TreeVersions == 1..MaxTreeVer
ReadVersions == 1..MaxReadVer

\* --------------------------------------------------------------- constants
Degree == 2
Nil == 0
TheList == "l"
NilList == "nil"

Methods == {"Exact", "Prev", "Next", "Upto", "Nearest"}

MaxNodeItems == Degree * 2 - 1
MinNodeItems == Degree - 1

VARIABLES item, tree, ret, lock, proc, hist, calls

\* What the goroutines share besides the list: the list's RWMutex, each
\* goroutine's position in the call it is making, the calls that took the write
\* lock, in the order they took it, and the number of calls made.
conc == <<lock, proc, hist, calls>>

vars == <<item, tree, ret, conc>>

\* ------------------------------------------------------------ slice helpers
\* Go slices are indexed from 0; the operators below take Go indices.
At(s, i) == s[i + 1]
InsertAt(s, i, x) == SubSeq(s, 1, i) \o <<x>> \o SubSeq(s, i + 1, Len(s))
RemoveAt(s, i) == SubSeq(s, 1, i) \o SubSeq(s, i + 2, Len(s))
SetAt(s, i, x) == [s EXCEPT ![i + 1] = x]
Truncate(s, i) == SubSeq(s, 1, i)
From(s, i) == SubSeq(s, i + 1, Len(s))

EmptyNode == [items |-> <<>>, children |-> <<>>]
EmptyTree == [root |-> Nil, nodes |-> <<>>, length |-> 0]

\* Less with the comparison turned round.
LessReversed(a, b) == a > b

\* Item.Less
Less(a, b) == a < b

\* items.find: sort.Search for the first index whose item is greater than the
\* key, then one step back when the item before it is not less than the key.
ItemsFind(I, s, k) ==
    LET i == IF \E j \in 1..Len(s) : Less(k, I[s[j]].ver)
             THEN (CHOOSE j \in 1..Len(s) :
                       /\ Less(k, I[s[j]].ver)
                       /\ \A m \in 1..(j - 1) : ~Less(k, I[s[m]].ver)) - 1
             ELSE Len(s)
    IN  IF i > 0 /\ ~Less(I[s[i]].ver, k)
        THEN [index |-> i - 1, found |-> TRUE]
        ELSE [index |-> i, found |-> FALSE]

\* node.split(i): the items and children after index i move to a new node.
Split(nodes, n, i) ==
    LET its == nodes[n].items
        ch == nodes[n].children
        next == Len(nodes) + 1
        left == [items |-> Truncate(its, i),
                 children |-> IF Len(ch) > 0 THEN Truncate(ch, i + 1) ELSE ch]
        right == [items |-> From(its, i + 1),
                  children |-> IF Len(ch) > 0 THEN From(ch, i + 1) ELSE <<>>]
    IN  [nodes |-> Append([nodes EXCEPT ![n] = left], right),
         item |-> At(its, i), next |-> next]

\* node.maybeSplitChild(i, maxItems)
MaybeSplitChild(nodes, n, i) ==
    LET c == At(nodes[n].children, i)
    IN  IF Len(nodes[c].items) < MaxNodeItems
        THEN [nodes |-> nodes, split |-> FALSE]
        ELSE LET sp == Split(nodes, c, MaxNodeItems \div 2)
             IN  [nodes |-> [sp.nodes EXCEPT
                        ![n] = [items |-> InsertAt(nodes[n].items, i, sp.item),
                                children |-> InsertAt(nodes[n].children, i + 1, sp.next)]],
                  split |-> TRUE]

\* node.insert(item, maxItems): returns the nodes and the item replaced (or Nil).
RECURSIVE NodeInsert(_, _, _, _)
NodeInsert(I, nodes, n, it) ==
    LET f == ItemsFind(I, nodes[n].items, I[it].ver)
    IN  IF f.found
        THEN [nodes |-> [nodes EXCEPT ![n].items = SetAt(@, f.index, it)],
              out |-> At(nodes[n].items, f.index)]
        ELSE IF Len(nodes[n].children) = 0
        THEN [nodes |-> [nodes EXCEPT ![n].items = InsertAt(@, f.index, it)],
              out |-> Nil]
        ELSE LET ms == MaybeSplitChild(nodes, n, f.index)
                 inTree == At(ms.nodes[n].items, f.index)
             IN  IF ms.split /\ ~Less(I[it].ver, I[inTree].ver)
                             /\ ~Less(I[inTree].ver, I[it].ver)
                 THEN [nodes |-> [ms.nodes EXCEPT ![n].items = SetAt(@, f.index, it)],
                       out |-> inTree]
                 ELSE LET i == IF ms.split /\ Less(I[inTree].ver, I[it].ver)
                               THEN f.index + 1 ELSE f.index
                      IN  NodeInsert(I, ms.nodes, At(ms.nodes[n].children, i), it)

\* BTree.ReplaceOrInsert(item)
ReplaceOrInsert(I, t, it) ==
    IF t.root = Nil
    THEN [t |-> [root |-> 1, nodes |-> <<[items |-> <<it>>, children |-> <<>>]>>,
                 length |-> t.length + 1],
          out |-> Nil]
    ELSE LET grown ==
                 IF Len(t.nodes[t.root].items) >= MaxNodeItems
                 THEN LET sp == Split(t.nodes, t.root, MaxNodeItems \div 2)
                          newroot == Len(sp.nodes) + 1
                      IN  [root |-> newroot,
                           nodes |-> Append(sp.nodes,
                                [items |-> <<sp.item>>,
                                 children |-> <<t.root, sp.next>>])]
                 ELSE [root |-> t.root, nodes |-> t.nodes]
             r == NodeInsert(I, grown.nodes, grown.root, it)
         IN  [t |-> [root |-> grown.root, nodes |-> r.nodes,
                     length |-> IF r.out = Nil THEN t.length + 1 ELSE t.length],
              out |-> r.out]

\* copyOnWriteContext.freeNode: the node's slices are truncated to length 0
\* before the node goes to the freelist.
FreeNode(nodes, n) == [nodes EXCEPT ![n] = EmptyNode]

\* node.remove(item, minItems, typ) and node.growChildAndRemove: return the nodes
\* and the item removed (or Nil). typ is "removeItem" or "removeMax".
RECURSIVE Remove(_, _, _, _, _)
RECURSIVE GrowChildAndRemove(_, _, _, _, _, _)
Remove(I, nodes, n, k, typ) ==
    LET its == nodes[n].items
        ch == nodes[n].children
        f == IF typ = "removeMax"
             THEN [index |-> Len(its), found |-> FALSE]
             ELSE ItemsFind(I, its, k)
    IN  IF Len(ch) = 0
        THEN IF typ = "removeMax"
             THEN [nodes |-> [nodes EXCEPT ![n].items = Truncate(its, Len(its) - 1)],
                   out |-> At(its, Len(its) - 1)]
             ELSE IF f.found
             THEN [nodes |-> [nodes EXCEPT ![n].items = RemoveAt(its, f.index)],
                   out |-> At(its, f.index)]
             ELSE [nodes |-> nodes, out |-> Nil]
        ELSE IF Len(nodes[At(ch, f.index)].items) <= MinNodeItems
        THEN GrowChildAndRemove(I, nodes, n, f.index, k, typ)
        ELSE IF f.found
        THEN LET r == Remove(I, nodes, At(ch, f.index), k, "removeMax")
             IN  [nodes |-> [r.nodes EXCEPT ![n].items = SetAt(@, f.index, r.out)],
                  out |-> At(its, f.index)]
        ELSE Remove(I, nodes, At(ch, f.index), k, typ)

GrowChildAndRemove(I, nodes, n, i, k, typ) ==
    LET its == nodes[n].items
        ch == nodes[n].children
    IN  IF i > 0 /\ Len(nodes[At(ch, i - 1)].items) > MinNodeItems
        THEN \* steal from left child
             LET child == At(ch, i)
                 stealFrom == At(ch, i - 1)
                 sits == nodes[stealFrom].items
                 sch == nodes[stealFrom].children
                 stolenItem == At(sits, Len(sits) - 1)
                 grown == [nodes EXCEPT
                     ![child] = [items |-> InsertAt(nodes[child].items, 0, At(its, i - 1)),
                                 children |-> IF Len(sch) > 0
                                     THEN InsertAt(nodes[child].children, 0,
                                                   At(sch, Len(sch) - 1))
                                     ELSE nodes[child].children],
                     ![stealFrom] = [items |-> Truncate(sits, Len(sits) - 1),
                                     children |-> IF Len(sch) > 0
                                         THEN Truncate(sch, Len(sch) - 1) ELSE sch],
                     ![n].items = SetAt(its, i - 1, stolenItem)]
             IN  Remove(I, grown, n, k, typ)
        ELSE IF i < Len(its) /\ Len(nodes[At(ch, i + 1)].items) > MinNodeItems
        THEN \* steal from right child
             LET child == At(ch, i)
                 stealFrom == At(ch, i + 1)
                 sits == nodes[stealFrom].items
                 sch == nodes[stealFrom].children
                 stolenItem == At(sits, 0)
                 grown == [nodes EXCEPT
                     ![child] = [items |-> Append(nodes[child].items, At(its, i)),
                                 children |-> IF Len(sch) > 0
                                     THEN Append(nodes[child].children, At(sch, 0))
                                     ELSE nodes[child].children],
                     ![stealFrom] = [items |-> RemoveAt(sits, 0),
                                     children |-> IF Len(sch) > 0
                                         THEN RemoveAt(sch, 0) ELSE sch],
                     ![n].items = SetAt(its, i, stolenItem)]
             IN  Remove(I, grown, n, k, typ)
        ELSE \* merge with right child
             LET j == IF i >= Len(its) THEN i - 1 ELSE i
                 child == At(ch, j)
                 mergeItem == At(its, j)
                 mergeChild == At(ch, j + 1)
                 merged == [nodes EXCEPT
                     ![n] = [items |-> RemoveAt(its, j),
                             children |-> RemoveAt(ch, j + 1)],
                     ![child] = [items |-> Append(nodes[child].items, mergeItem)
                                               \o nodes[mergeChild].items,
                                 children |-> nodes[child].children
                                               \o nodes[mergeChild].children]]
             IN  Remove(I, FreeNode(merged, mergeChild), n, k, typ)

\* BTree.Delete(item) = deleteItem(item, removeItem)
Delete(I, t, k) ==
    IF t.root = Nil \/ Len(t.nodes[t.root].items) = 0
    THEN [t |-> t, out |-> Nil]
    ELSE LET r == Remove(I, t.nodes, t.root, k, "removeItem")
             shrink == Len(r.nodes[t.root].items) = 0
                           /\ Len(r.nodes[t.root].children) > 0
         IN  [t |-> [root |-> IF shrink THEN At(r.nodes[t.root].children, 0)
                                        ELSE t.root,
                     nodes |-> IF shrink THEN FreeNode(r.nodes, t.root) ELSE r.nodes,
                     length |-> IF r.out # Nil THEN t.length - 1 ELSE t.length],
              out |-> r.out]

\* BTree.Get(key)
RECURSIVE NodeGet(_, _, _, _)
NodeGet(I, nodes, n, k) ==
    LET f == ItemsFind(I, nodes[n].items, k)
    IN  IF f.found THEN At(nodes[n].items, f.index)
        ELSE IF Len(nodes[n].children) > 0
        THEN NodeGet(I, nodes, At(nodes[n].children, f.index), k)
        ELSE Nil

TreeGet(I, t, k) == IF t.root = Nil THEN Nil ELSE NodeGet(I, t.nodes, t.root, k)

\* min(n) that stops at the node it is given: its first item, not the first item
\* of its leftmost leaf.
NodeMinOfRoot(nodes, n) ==
    IF Len(nodes[n].items) = 0 THEN Nil ELSE At(nodes[n].items, 0)

\* BTree.Min, BTree.Max: the first item of the leftmost leaf, the last item of
\* the rightmost leaf.
RECURSIVE NodeMin(_, _)
NodeMin(nodes, n) ==
    IF Len(nodes[n].children) > 0 THEN NodeMin(nodes, At(nodes[n].children, 0))
    ELSE IF Len(nodes[n].items) = 0 THEN Nil
    ELSE At(nodes[n].items, 0)

RECURSIVE NodeMax(_, _)
NodeMax(nodes, n) ==
    IF Len(nodes[n].children) > 0
    THEN NodeMax(nodes, At(nodes[n].children, Len(nodes[n].children) - 1))
    ELSE IF Len(nodes[n].items) = 0 THEN Nil
    ELSE At(nodes[n].items, Len(nodes[n].items) - 1)

TreeMin(t) == IF t.root = Nil THEN Nil ELSE NodeMin(t.nodes, t.root)
TreeMax(t) == IF t.root = Nil THEN Nil ELSE NodeMax(t.nodes, t.root)

\* BTree.Len
TreeLen(t) == t.length

\* ---------------------------------------------------------------- iteration
\* The state an iteration runs in: the tree, what the callback has collected, and
\* whether a Go run-time panic (an index out of range) has been raised.
World(t, acc) == [t |-> t, acc |-> acc, panic |-> FALSE]

Stopped(st, hit) == [st |-> st, hit |-> hit, ok |-> FALSE]
Raised(st, hit) == [st |-> [st EXCEPT !.panic = TRUE], hit |-> hit, ok |-> FALSE]

\* The state after a callback has deleted from the tree, t being the tree the
\* deletion left: acc keeps the trees the list went through, one per deletion.
Deleted(st, t) == [st EXCEPT !.t = t, !.acc = Append(@, t)]

\* The callbacks this package hands to the tree's iterators.
\*   findPrev, findNext: keep the first item whose version differs from ver
\*   findUpto: keep the first item
\*   expunge: delete the item from the tree and go on
\*   walk: func(i) { return !fn(i) }, the visitor fn being given by its answers,
\*         cb.fn[k] at its k-th call
\* Callback with the tie kept: Prev and Next stop at the boundary item itself.
CallbackKeepsTie(I, st, cb, v) ==
    CASE cb.kind \in {"findPrev", "findNext", "findUpto"} ->
             [st |-> [st EXCEPT !.acc = v], cont |-> FALSE]
      [] cb.kind = "expunge" ->
             [st |-> Deleted(st, Delete(I, st.t, I[v].ver).t), cont |-> TRUE]
      [] cb.kind = "walk" ->
             [st |-> [st EXCEPT !.acc = Append(@, v)],
              cont |-> ~cb.fn[Len(st.acc) + 1]]

\* Callback with a findUpto that takes the item it keeps out of the tree.
CallbackTakes(I, st, cb, v) ==
    CASE cb.kind \in {"findPrev", "findNext"} ->
             IF I[v].ver # cb.ver
             THEN [st |-> [st EXCEPT !.acc = v], cont |-> FALSE]
             ELSE [st |-> st, cont |-> TRUE]
      [] cb.kind = "findUpto" ->
             [st |-> [st EXCEPT !.acc = v, !.t = Delete(I, st.t, I[v].ver).t],
              cont |-> FALSE]
      [] cb.kind = "expunge" ->
             [st |-> Deleted(st, Delete(I, st.t, I[v].ver).t), cont |-> TRUE]
      [] cb.kind = "walk" ->
             LET fn == cb.fn[Len(st.acc) + 1]
             IN  [st |-> [st EXCEPT !.acc = Append(@, v)], cont |-> ~fn]

\* Callback with Walk's callback written as func(i) { return fn(i) }.
CallbackWhileTrue(I, st, cb, v) ==
    CASE cb.kind \in {"findPrev", "findNext"} ->
             IF I[v].ver # cb.ver
             THEN [st |-> [st EXCEPT !.acc = v], cont |-> FALSE]
             ELSE [st |-> st, cont |-> TRUE]
      [] cb.kind = "findUpto" ->
             [st |-> [st EXCEPT !.acc = v], cont |-> FALSE]
      [] cb.kind = "expunge" ->
             [st |-> Deleted(st, Delete(I, st.t, I[v].ver).t), cont |-> TRUE]
      [] cb.kind = "walk" ->
             [st |-> [st EXCEPT !.acc = Append(@, v)],
              cont |-> cb.fn[Len(st.acc) + 1]]

Callback(I, st, cb, v) ==
    CASE cb.kind \in {"findPrev", "findNext"} ->
             IF I[v].ver # cb.ver
             THEN [st |-> [st EXCEPT !.acc = v], cont |-> FALSE]
             ELSE [st |-> st, cont |-> TRUE]
      [] cb.kind = "findUpto" ->
             [st |-> [st EXCEPT !.acc = v], cont |-> FALSE]
      [] cb.kind = "expunge" ->
             [st |-> Deleted(st, Delete(I, st.t, I[v].ver).t), cont |-> TRUE]
      [] cb.kind = "walk" ->
             LET fn == cb.fn[Len(st.acc) + 1]
             IN  [st |-> [st EXCEPT !.acc = Append(@, v)], cont |-> ~fn]

\* node.iterate(dir, start, stop, includeStart, hit, iter), stop being nil in every
\* call this package makes. q holds dir, start (a version, or Nil), includeStart
\* and the callback. The node is read again at every access, as n.items[i] and
\* n.children[i] are in Go, and an index past the slice's length panics.
RECURSIVE Iterate(_, _, _, _, _)
RECURSIVE AscendFrom(_, _, _, _, _, _)
RECURSIVE AscendItem(_, _, _, _, _)
RECURSIVE AscendCalled(_, _, _, _, _)
RECURSIVE DescendFrom(_, _, _, _, _, _)
RECURSIVE DescendItem(_, _, _, _, _)
RECURSIVE DescendCalled(_, _, _, _, _)
Iterate(I, st, n, hit, q) ==
    LET its == st.t.nodes[n].items
        f == ItemsFind(I, its, q.start)
    IN  IF q.dir = "ascend"
        THEN AscendFrom(I, st, n, IF q.start # Nil THEN f.index ELSE 0, hit, q)
        ELSE DescendFrom(I, st, n,
                 IF q.start # Nil
                 THEN (IF f.found THEN f.index ELSE f.index - 1)
                 ELSE Len(its) - 1,
                 hit, q)

\* The ascending loop at index i: the child before item i is iterated first.
AscendFrom(I, st, n, i, hit, q) ==
    LET nd == st.t.nodes[n]
    IN  IF i >= Len(nd.items)
        THEN IF Len(nd.children) > 0
             THEN Iterate(I, st, At(nd.children, Len(nd.children) - 1), hit, q)
             ELSE [st |-> st, hit |-> hit, ok |-> TRUE]
        ELSE IF Len(nd.children) > 0 /\ i >= Len(nd.children)
        THEN Raised(st, hit)
        ELSE AscendItem(I, n, i, q,
                 IF Len(nd.children) > 0
                 THEN Iterate(I, st, At(nd.children, i), hit, q)
                 ELSE [st |-> st, hit |-> hit, ok |-> TRUE])

\* The ascending loop at item i, sub being what iterating the child returned.
AscendItem(I, n, i, q, sub) ==
    LET now == sub.st.t.nodes[n]
    IN  IF ~sub.ok THEN Stopped(sub.st, sub.hit)
        ELSE IF i >= Len(now.items) THEN Raised(sub.st, sub.hit)
        ELSE IF ~q.includeStart /\ ~sub.hit /\ q.start # Nil
                   /\ ~Less(q.start, I[At(now.items, i)].ver)
        THEN AscendFrom(I, sub.st, n, i + 1, TRUE, q)
        ELSE AscendCalled(I, n, i, q, Callback(I, sub.st, q.cb, At(now.items, i)))

\* The ascending loop after the callback on item i, c being what it returned.
AscendCalled(I, n, i, q, c) ==
    IF ~c.cont THEN Stopped(c.st, TRUE)
    ELSE AscendFrom(I, c.st, n, i + 1, TRUE, q)

\* The descending loop at index i: the child after item i is iterated first.
DescendFrom(I, st, n, i, hit, q) ==
    LET nd == st.t.nodes[n]
    IN  IF i < 0
        THEN IF Len(nd.children) > 0
             THEN Iterate(I, st, At(nd.children, 0), hit, q)
             ELSE [st |-> st, hit |-> hit, ok |-> TRUE]
        ELSE IF q.start # Nil /\ i >= Len(nd.items)
        THEN Raised(st, hit)
        ELSE IF /\ q.start # Nil
                /\ ~Less(I[At(nd.items, i)].ver, q.start)
                /\ (~q.includeStart \/ hit \/ Less(q.start, I[At(nd.items, i)].ver))
        THEN DescendFrom(I, st, n, i - 1, hit, q)
        ELSE IF Len(nd.children) > 0 /\ i + 1 >= Len(nd.children)
        THEN Raised(st, hit)
        ELSE DescendItem(I, n, i, q,
                 IF Len(nd.children) > 0
                 THEN Iterate(I, st, At(nd.children, i + 1), hit, q)
                 ELSE [st |-> st, hit |-> hit, ok |-> TRUE])

\* The descending loop at item i, sub being what iterating the child returned.
DescendItem(I, n, i, q, sub) ==
    LET now == sub.st.t.nodes[n]
    IN  IF ~sub.ok THEN Stopped(sub.st, sub.hit)
        ELSE IF i >= Len(now.items) THEN Raised(sub.st, TRUE)
        ELSE DescendCalled(I, n, i, q, Callback(I, sub.st, q.cb, At(now.items, i)))

\* The descending loop after the callback on item i, c being what it returned.
DescendCalled(I, n, i, q, c) ==
    IF ~c.cont THEN Stopped(c.st, TRUE)
    ELSE DescendFrom(I, c.st, n, i - 1, TRUE, q)

\* BTree.Ascend, BTree.AscendGreaterOrEqual, BTree.DescendLessOrEqual
Ascend(I, st, cb) ==
    IF st.t.root = Nil THEN st
    ELSE Iterate(I, st, st.t.root, FALSE,
             [dir |-> "ascend", start |-> Nil, includeStart |-> FALSE, cb |-> cb]).st

AscendGreaterOrEqual(I, st, pivot, cb) ==
    IF st.t.root = Nil THEN st
    ELSE Iterate(I, st, st.t.root, FALSE,
             [dir |-> "ascend", start |-> pivot, includeStart |-> TRUE, cb |-> cb]).st

DescendLessOrEqual(I, st, pivot, cb) ==
    IF st.t.root = Nil THEN st
    ELSE Iterate(I, st, st.t.root, FALSE,
             [dir |-> "descend", start |-> pivot, includeStart |-> TRUE, cb |-> cb]).st

\* ------------------------------------------------------------------ List
\* find with Nearest looking ahead first: Next, and Upto only when there is none.
findAheadFirst(I, t, ver, what) ==
    LET upto == DescendLessOrEqual(I, World(t, Nil), ver, [kind |-> "findUpto"]).acc
        next == AscendGreaterOrEqual(I, World(t, Nil), ver,
                                     [kind |-> "findNext", ver |-> ver]).acc
    IN  CASE what = "Prev" ->
                 DescendLessOrEqual(I, World(t, Nil), ver,
                                    [kind |-> "findPrev", ver |-> ver]).acc
          [] what = "Next" -> next
          [] what = "Upto" -> upto
          [] what = "Exact" -> TreeGet(I, t, ver)
          [] what = "Nearest" -> IF next = Nil THEN upto ELSE next

\* List.find(ver, what): the tree its iterators, and the callbacks they call, end
\* with, and in acc the item it returns. Get of the tree package only reads.
RECURSIVE findIn(_, _, _, _)
RECURSIVE NearestAfter(_, _, _)
findIn(I, t, ver, what) ==
    CASE what = "Prev" ->
             DescendLessOrEqual(I, World(t, Nil), ver,
                                [kind |-> "findPrev", ver |-> ver])
      [] what = "Next" ->
             AscendGreaterOrEqual(I, World(t, Nil), ver,
                                  [kind |-> "findNext", ver |-> ver])
      [] what = "Upto" ->
             DescendLessOrEqual(I, World(t, Nil), ver, [kind |-> "findUpto"])
      [] what = "Exact" -> World(t, TreeGet(I, t, ver))
      [] what = "Nearest" -> NearestAfter(I, ver, findIn(I, t, ver, "Upto"))

\* List.find, case Nearest: after the Upto search
NearestAfter(I, ver, st) ==
    IF st.acc = Nil THEN findIn(I, st.t, ver, "Next") ELSE st

\* List.find(ver, what): the item it returns
find(I, t, ver, what) == findIn(I, t, ver, what).acc

\* The tree with its nodes numbered in preorder from the root and the nodes no
\* longer reachable from the root dropped: node addresses are not observable.
RECURSIVE Preorder(_, _)
RECURSIVE PreorderAll(_, _)
Preorder(nodes, n) == <<n>> \o PreorderAll(nodes, nodes[n].children)
PreorderAll(nodes, ch) ==
    IF ch = <<>> THEN <<>>
    ELSE Preorder(nodes, Head(ch)) \o PreorderAll(nodes, Tail(ch))

Canon(t) ==
    IF t.root = Nil THEN t
    ELSE LET order == Preorder(t.nodes, t.root)
             pos(n) == CHOOSE j \in 1..Len(order) : order[j] = n
         IN  [root |-> 1,
              nodes |-> [j \in 1..Len(order) |->
                  [items |-> t.nodes[order[j]].items,
                   children |-> [c \in 1..Len(t.nodes[order[j]].children) |->
                                     pos(t.nodes[order[j]].children[c])]]],
              length |-> t.length]

\* What the last call returned: the item (Nil for a nil result), or for Len the
\* count; for Walk the items the visitor was called with, in order; and whether
\* the call ended in a run-time panic instead of returning.
Ret(op, res) == [op |-> op, res |-> res, visited |-> <<>>, panicked |-> FALSE]

\* Clr that also clears the owner of every item.
ListClrDetaches(I, t) ==
    [item |-> [i \in 1..Len(I) |-> [I[i] EXCEPT !.list = NilList]],
     tree |-> EmptyTree, res |-> Nil]

\* List.Clr: a new, empty tree; no item is touched.
ListClr(I, t) == [item |-> I, tree |-> EmptyTree, res |-> Nil]

\* Put that leaves a version alone when the list already holds it.
ListPutIfAbsent(I, t, ver, val) ==
    LET i == Len(I) + 1
        J == Append(I, [ver |-> ver, val |-> val, list |-> TheList])
    IN  IF TreeGet(I, t, ver) # Nil
        THEN [item |-> J, tree |-> t, res |-> i]
        ELSE [item |-> J, tree |-> Canon(ReplaceOrInsert(J, t, i).t), res |-> i]

\* List.Put(ver, val) on the items I and the tree t
ListPut(I, t, ver, val) ==
    LET i == Len(I) + 1
        J == Append(I, [ver |-> ver, val |-> val, list |-> TheList])
    IN  [item |-> J, tree |-> Canon(ReplaceOrInsert(J, t, i).t), res |-> i]

\* Del that forgets to clear the owner of the item it removes.
ListDelKeepsOwner(I, t, ver, meth) ==
    LET i == find(I, t, ver, meth)
    IN  IF i # Nil
        THEN [item |-> I, tree |-> Canon(Delete(I, t, I[i].ver).t), res |-> i]
        ELSE [item |-> I, tree |-> t, res |-> i]

\* List.Del clearing the owner of the item it found and leaving it in the tree.
ListDelItemStays(I, t, i) ==
    IF i # Nil
    THEN [item |-> [I EXCEPT ![i].list = NilList], tree |-> t, res |-> i]
    ELSE [item |-> I, tree |-> t, res |-> i]

\* List.Del after its seek has resolved i: the item leaves the tree and loses its
\* owner.
ListDelItem(I, t, i) ==
    IF i # Nil
    THEN [item |-> [I EXCEPT ![i].list = NilList],
          tree |-> Canon(Delete(I, t, I[i].ver).t), res |-> i]
    ELSE [item |-> I, tree |-> t, res |-> i]

\* List.Del(ver, meth)
ListDel(I, t, ver, meth) == ListDelItem(I, t, find(I, t, ver, meth))

\* What Exp returns once the iteration from item i has ended in the state st. A
\* panic unwinds through Exp (the deferred Unlock runs) and nothing is returned.
ListExpResult(i, st) ==
    [tree |-> Canon(st.t), res |-> IF st.panic THEN Nil ELSE i, panicked |-> st.panic]

\* List.Exp after its seek has resolved i: the deletions happen inside the
\* callback of the iteration that descends from i.
ListExpItem(I, t, i) ==
    IF i # Nil
    THEN ListExpResult(i, DescendLessOrEqual(I, World(t, <<>>), I[i].ver,
                                             [kind |-> "expunge"]))
    ELSE [tree |-> t, res |-> Nil, panicked |-> FALSE]

\* List.Exp(ver, meth)
ListExp(I, t, ver, meth) == ListExpItem(I, t, find(I, t, ver, meth))

\* Item.Del without the test of the owner: the version is deleted every time.
ItemDeleteAlways(I, t, i) ==
    [item |-> [I EXCEPT ![i].list = NilList],
     tree |-> Canon(Delete(I, t, I[i].ver).t), res |-> i]

\* Item.Del
ItemDelete(I, t, i) ==
    IF I[i].list # NilList
    THEN [item |-> [I EXCEPT ![i].list = NilList],
          tree |-> Canon(Delete(I, t, I[i].ver).t), res |-> i]
    ELSE [item |-> I, tree |-> t, res |-> i]

\* Item.Prev without the test of the owner.
ItemPrevIgnoresOwner(I, t, i) == find(I, t, I[i].ver, "Prev")

\* Item.Prev, Item.Next
ItemPrevResult(I, t, i) ==
    IF I[i].list # NilList THEN find(I, t, I[i].ver, "Prev") ELSE Nil

ItemNextResult(I, t, i) ==
    IF I[i].list # NilList THEN find(I, t, I[i].ver, "Next") ELSE Nil

\* The visitors handed to Walk: a visitor is the answer it gives at each of its
\* calls, and is called at most once per stored item.
Visitors(n) == [1..n -> BOOLEAN]
NeverTrue(n) == [k \in 1..n |-> FALSE]

\* Item.Set with the version written as well as the value.
ItemSetResultAll(I, t, i, val) ==
    [item |-> [I EXCEPT ![i].val = val, ![i].ver = val], tree |-> t, res |-> i]

\* Item.Set(val): i.val = val; return i
ItemSetResult(I, t, i, val) ==
    [item |-> [I EXCEPT ![i].val = val], tree |-> t, res |-> i]

\* List.Get(ver, meth)
ListGot(I, st) == [item |-> I, tree |-> st.t, res |-> st.acc]
ListGet(I, t, ver, meth) == ListGot(I, findIn(I, t, ver, meth))

\* List.Walk(fn): the items fn was called with, in order.
WalkVisits(I, t, fn) ==
    Ascend(I, World(t, <<>>), [kind |-> "walk", fn |-> fn]).acc

\* ---------------------------------------------------------------- actions
\* The goroutines that call into the list.
Procs == 1..MaxProcs

\* A goroutine that is in no call.
Idle == [pc |-> "idle", op |-> "none", ver |-> Nil, i |-> Nil, res |-> Nil,
         trace |-> <<>>, panicked |-> FALSE]

\* No call is in progress: the RWMutex is free (no writer, no reader).
Quiet ==
    /\ lock = [writer |-> Nil, readers |-> {}]
    /\ proc = [p \in Procs |-> Idle]
    /\ hist = <<>>
    /\ calls = 0

\* New: an empty list. No item exists yet.
Init ==
    /\ item = <<>>
    /\ tree = EmptyTree
    /\ ret = Ret("New", Nil)
    /\ Quiet

\* A call that returns r.res and leaves the items r.item and the tree r.tree.
Returns(op, r) ==
    /\ item' = r.item
    /\ tree' = r.tree
    /\ ret' = Ret(op, r.res)
    /\ UNCHANGED conc

Clr == Returns("Clr", ListClr(item, tree))

Put(ver, val) == Returns("Put", ListPut(item, tree, ver, val))

Del(ver, meth) == Returns("Del", ListDel(item, tree, ver, meth))

\* Exp touches no item: the owner of what it removes stays as it is.
Expunged(r) ==
    /\ tree' = r.tree
    /\ ret' = [Ret("Exp", r.res) EXCEPT !.panicked = r.panicked]
    /\ UNCHANGED <<item, conc>>

Exp(ver, meth) == Expunged(ListExp(item, tree, ver, meth))

Get(ver, meth) == Returns("Get", ListGet(item, tree, ver, meth))

LenOp ==
    /\ ret' = Ret("Len", TreeLen(tree))
    /\ UNCHANGED <<item, tree, conc>>

Min ==
    /\ ret' = Ret("Min", TreeMin(tree))
    /\ UNCHANGED <<item, tree, conc>>

Max ==
    /\ ret' = Ret("Max", TreeMax(tree))
    /\ UNCHANGED <<item, tree, conc>>

Walked(st) ==
    /\ item' = item
    /\ tree' = st.t
    /\ ret' = [Ret("Walk", Nil) EXCEPT !.visited = st.acc]
    /\ UNCHANGED conc

Walk(fn) == Walked(Ascend(item, World(tree, <<>>), [kind |-> "walk", fn |-> fn]))

ItemSet(i, val) == Returns("ItemSet", ItemSetResult(item, tree, i, val))

ItemDel(i) == Returns("ItemDel", ItemDelete(item, tree, i))

ItemPrev(i) ==
    /\ ret' = Ret("ItemPrev", ItemPrevResult(item, tree, i))
    /\ UNCHANGED <<item, tree, conc>>

ItemNext(i) ==
    /\ ret' = Ret("ItemNext", ItemNextResult(item, tree, i))
    /\ UNCHANGED <<item, tree, conc>>

\* The whole interface, called in any order on a list that starts empty.
Next ==
    \/ Clr
    \/ \E ver \in Versions, val \in Values : Len(item) < MaxAlloc /\ Put(ver, val)
    \/ \E ver \in Versions, meth \in Methods : Del(ver, meth)
    \/ \E ver \in Versions, meth \in Methods : Exp(ver, meth)
    \/ \E ver \in Versions, meth \in Methods : Get(ver, meth)
    \/ LenOp
    \/ Min
    \/ Max
    \/ \E fn \in Visitors(MaxAlloc) : Walk(fn)
    \/ \E i \in 1..Len(item), val \in Values : ItemSet(i, val)
    \/ \E i \in 1..Len(item) : ItemDel(i)
    \/ \E i \in 1..Len(item) : ItemPrev(i)
    \/ \E i \in 1..Len(item) : ItemNext(i)

Spec == Init /\ [][Next]_vars

\* The calls that change the tree, on more versions, so that the tree grows past
\* one node (a node of a degree-2 tree holds at most 3 items). Values play no
\* part here, and an Exp by any method is an Exp of the version it resolves to.
NextTree ==
    \/ Clr
    \/ \E ver \in TreeVersions : Len(item) < MaxTreeAlloc /\ Put(ver, 1)
    \/ \E ver \in TreeVersions, meth \in Methods : Del(ver, meth)
    \/ \E ver \in TreeVersions : Exp(ver, "Exact")
    \/ Walk(NeverTrue(MaxTreeAlloc))
    \/ LenOp
    \/ Min
    \/ Max
    \/ \E i \in 1..Len(item) : ItemDel(i)

SpecTree == Init /\ [][NextTree]_vars

\* The read-only calls, on every list that a script of at most MaxScript Put and
\* Del calls builds from the empty list.
ScriptOps == [kind : {"Put", "Del"}, ver : ReadVersions]
Scripts == UNION {[1..n -> ScriptOps] : n \in 0..MaxScript}

\* One call of a script, on the items and the tree b the calls before it built.
BuiltStep(b, op) ==
    IF op.kind = "Put"
    THEN ListPut(b.item, b.tree, op.ver, 1)
    ELSE ListDel(b.item, b.tree, op.ver, "Exact")

RECURSIVE Built(_)
Built(script) ==
    IF script = <<>> THEN [item |-> <<>>, tree |-> EmptyTree]
    ELSE BuiltStep(Built(SubSeq(script, 1, Len(script) - 1)), script[Len(script)])

StartsAs(b) ==
    /\ item = b.item
    /\ tree = b.tree
    /\ ret = Ret("New", Nil)
    /\ Quiet

InitRead == \E script \in Scripts : StartsAs(Built(script))

NextRead ==
    \/ \E ver \in ReadVersions, meth \in Methods : Get(ver, meth)
    \/ \E fn \in Visitors(MaxScript) : Walk(fn)
    \/ LenOp
    \/ Min
    \/ Max

SpecRead == InitRead /\ [][NextRead]_vars

\* ------------------------------------------------------------- goroutines
\* The calls made from several goroutines, each statement of a method a step of
\* its own. A list method takes the list's mutex first and releases it last (the
\* deferred Unlock); an Item method tests and dereferences i.list before it holds
\* the mutex.
ConcVersions == 1..MaxConcVer

WriteOps == {"Put", "Del", "Exp", "ItemDel"}
SeekOps == {"ItemPrev", "ItemNext"}
ReadOps == {"Get", "Len", "Min", "Max"}

\* A mutex that lets every caller in.
CanLockAlways(p) == TRUE
CanRLockAlways(p) == TRUE

\* sync.RWMutex: Lock returns once no goroutine holds the mutex, RLock once no
\* writer holds it.
CanLock(p) == lock.writer = Nil /\ lock.readers = {}
CanRLock(p) == lock.writer = Nil

\* A read of i.list that the mutex does not order after the write that cleared
\* it (a data race): it returns what the field holds now, or the list it held.
RacyRead(i) == {item[i].list, TheList}

\* The list the goroutines start on: two entries, put by one goroutine.
ConcStart ==
    ListPut(ListPut(<<>>, EmptyTree, 1, 1).item,
            ListPut(<<>>, EmptyTree, 1, 1).tree, MaxConcVer, 1)

InitConc ==
    /\ item = ConcStart.item
    /\ tree = ConcStart.tree
    /\ ret = Ret("New", Nil)
    /\ Quiet

\* A goroutine enters a method.
Call(p, op, ver, i) ==
    /\ proc[p].pc = "idle"
    /\ calls < MaxCalls
    /\ calls' = calls + 1
    /\ proc' = [proc EXCEPT ![p] =
           [Idle EXCEPT !.op = op, !.ver = ver, !.i = i,
                        !.pc = CASE op \in {"Put", "Del", "Exp"} -> "lock"
                                 [] op \in ReadOps \cup {"Walk"} -> "rlock"
                                 [] OTHER -> "check"]]
    /\ UNCHANGED <<item, tree, ret, lock, hist>>

\* l.lock.Lock()
WLock(p) ==
    /\ proc[p].pc = "lock"
    /\ CanLock(p)
    /\ lock' = [lock EXCEPT !.writer = p]
    /\ hist' = Append(hist, [op |-> proc[p].op, ver |-> proc[p].ver, i |-> proc[p].i])
    /\ proc' = [proc EXCEPT ![p].pc = IF proc[p].op = "ItemDel" THEN "defer" ELSE "body"]
    /\ UNCHANGED <<item, tree, ret, calls>>

\* List.Put: i := &Item{ver: ver, val: val, list: l}
PutNew(p) ==
    /\ proc[p].pc = "body"
    /\ proc[p].op = "Put"
    /\ item' = Append(item, [ver |-> proc[p].ver, val |-> 1, list |-> TheList])
    /\ proc' = [proc EXCEPT ![p].pc = "insert", ![p].i = Len(item) + 1,
                            ![p].res = Len(item) + 1]
    /\ UNCHANGED <<tree, ret, lock, hist, calls>>

\* List.Put: l.tree.ReplaceOrInsert(i)
PutInsert(p) ==
    /\ proc[p].pc = "insert"
    /\ tree' = Canon(ReplaceOrInsert(item, tree, proc[p].i).t)
    /\ proc' = [proc EXCEPT ![p].pc = "unlock"]
    /\ UNCHANGED <<item, ret, lock, hist, calls>>

\* List.Del: i := l.find(ver, meth)
DelFound(p, i) ==
    proc' = [proc EXCEPT ![p].pc = IF i = Nil THEN "unlock" ELSE "delete",
                         ![p].i = i, ![p].res = i]

DelFind(p) ==
    /\ proc[p].pc = "body"
    /\ proc[p].op = "Del"
    /\ DelFound(p, find(item, tree, proc[p].ver, "Exact"))
    /\ UNCHANGED <<item, tree, ret, lock, hist, calls>>

\* List.Del, Item.Del: tree.Delete(i)
DeleteStep(p) ==
    /\ proc[p].pc = "delete"
    /\ tree' = Canon(Delete(item, tree, item[proc[p].i].ver).t)
    /\ proc' = [proc EXCEPT ![p].pc = "detach", ![p].res = proc[p].i]
    /\ UNCHANGED <<item, ret, lock, hist, calls>>

\* List.Del, Item.Del: i.list = nil
DetachStep(p) ==
    /\ proc[p].pc = "detach"
    /\ item' = [item EXCEPT ![proc[p].i].list = NilList]
    /\ proc' = [proc EXCEPT ![p].pc = "unlock"]
    /\ UNCHANGED <<tree, ret, lock, hist, calls>>

\* List.Exp: i := l.find(ver, meth), and the iteration it starts from i: the
\* trees its deletions leave, one after the other.
ExpTraced(p, i, st) ==
    proc' = [proc EXCEPT ![p].pc = "expunge", ![p].i = i, ![p].res = i,
                         ![p].trace = st.acc, ![p].panicked = st.panic]

ExpFound(p, i) ==
    IF i = Nil
    THEN proc' = [proc EXCEPT ![p].pc = "unlock"]
    ELSE ExpTraced(p, i, DescendLessOrEqual(item, World(tree, <<>>), item[i].ver,
                                            [kind |-> "expunge"]))

ExpFind(p) ==
    /\ proc[p].pc = "body"
    /\ proc[p].op = "Exp"
    /\ ExpFound(p, find(item, tree, proc[p].ver, "Exact"))
    /\ UNCHANGED <<item, tree, ret, lock, hist, calls>>

\* List.Exp: one l.tree.Delete(v) of the callback
ExpStep(p) ==
    /\ proc[p].pc = "expunge"
    /\ tree' = Canon(Head(proc[p].trace))
    /\ proc' = [proc EXCEPT ![p].trace = Tail(@),
                            ![p].pc = IF Len(proc[p].trace) = 1 THEN "unlock"
                                      ELSE "expunge"]
    /\ UNCHANGED <<item, ret, lock, hist, calls>>

\* The deferred l.lock.Unlock(), and the return. A panic of the iteration unwinds
\* through the deferred call.
WUnlock(p) ==
    /\ proc[p].pc = "unlock"
    /\ lock' = [lock EXCEPT !.writer = Nil]
    /\ ret' = [Ret(proc[p].op, IF proc[p].panicked THEN Nil ELSE proc[p].res)
                   EXCEPT !.panicked = proc[p].panicked]
    /\ proc' = [proc EXCEPT ![p] = Idle]
    /\ UNCHANGED <<item, tree, hist, calls>>

\* l.lock.RLock()
RLock(p) ==
    /\ proc[p].pc = "rlock"
    /\ CanRLock(p)
    /\ lock' = [lock EXCEPT !.readers = @ \cup {p}]
    /\ proc' = [proc EXCEPT ![p].pc = IF proc[p].op \in SeekOps THEN "rdefer" ELSE "read"]
    /\ UNCHANGED <<item, tree, ret, hist, calls>>

\* List.Walk: l.tree.Ascend(...), with a visitor that never stops the walk
WalkRead(p) ==
    /\ proc[p].pc = "read"
    /\ proc[p].op = "Walk"
    /\ proc' = [proc EXCEPT ![p].pc = "runlock",
                            ![p].trace = WalkVisits(item, tree, NeverTrue(MaxCalls + MaxConcVer))]
    /\ UNCHANGED <<item, tree, ret, lock, hist, calls>>

\* List.Get, List.Len, List.Min, List.Max: the body, a read of the tree
ListRead(p) ==
    /\ proc[p].pc = "read"
    /\ proc[p].op \in ReadOps
    /\ proc' = [proc EXCEPT ![p].pc = "runlock",
                            ![p].res = CASE proc[p].op = "Get" ->
                                                find(item, tree, proc[p].ver, "Upto")
                                         [] proc[p].op = "Len" -> TreeLen(tree)
                                         [] proc[p].op = "Min" -> TreeMin(tree)
                                         [] proc[p].op = "Max" -> TreeMax(tree)]
    /\ UNCHANGED <<item, tree, ret, lock, hist, calls>>

\* Item.Prev, Item.Next: return i.list.find(i.ver, Prev), or Next
SeekRead(p) ==
    /\ proc[p].pc = "read"
    /\ proc[p].op \in SeekOps
    /\ proc' = [proc EXCEPT ![p].pc = "runlock",
                            ![p].res = find(item, tree, item[proc[p].i].ver,
                                            IF proc[p].op = "ItemPrev" THEN "Prev"
                                            ELSE "Next")]
    /\ UNCHANGED <<item, tree, ret, lock, hist, calls>>

\* The deferred l.lock.RUnlock(), and the return
RUnlock(p) ==
    /\ proc[p].pc = "runlock"
    /\ lock' = [lock EXCEPT !.readers = @ \ {p}]
    /\ ret' = [Ret(proc[p].op, proc[p].res) EXCEPT !.visited = proc[p].trace]
    /\ proc' = [proc EXCEPT ![p] = Idle]
    /\ UNCHANGED <<item, tree, hist, calls>>

\* Item.Del, Item.Prev, Item.Next: if i.list != nil, read without the mutex. With
\* no owner, Del returns the item and Prev and Next return nil.
ItemCheck(p) ==
    /\ proc[p].pc = "check"
    /\ \E l \in RacyRead(proc[p].i) :
           IF l = NilList
           THEN /\ proc' = [proc EXCEPT ![p] = Idle]
                /\ ret' = Ret(proc[p].op,
                              IF proc[p].op = "ItemDel" THEN proc[p].i ELSE Nil)
           ELSE /\ proc' = [proc EXCEPT ![p].pc = "eval"]
                /\ UNCHANGED ret
    /\ UNCHANGED <<item, tree, lock, hist, calls>>

\* Item.Del, Item.Prev, Item.Next: the i.list of i.list.lock.Lock() or RLock(),
\* read again, without the mutex: a nil i.list is a nil pointer dereference.
ItemEval(p) ==
    /\ proc[p].pc = "eval"
    /\ \E l \in RacyRead(proc[p].i) :
           proc' = [proc EXCEPT ![p].pc =
               IF l = NilList THEN "fault"
               ELSE IF proc[p].op = "ItemDel" THEN "lock" ELSE "rlock"]
    /\ UNCHANGED <<item, tree, ret, lock, hist, calls>>

\* Item.Del, Item.Prev, Item.Next: the i.list of defer i.list.lock.Unlock() or
\* RUnlock(), read with the mutex held, before any unlock is deferred: a nil
\* i.list is a nil pointer dereference that leaves the mutex held.
ItemDefer(p) ==
    /\ proc[p].pc \in {"defer", "rdefer"}
    /\ proc' = [proc EXCEPT ![p].pc =
           IF item[proc[p].i].list = NilList THEN "fault"
           ELSE IF proc[p].pc = "defer" THEN "delete" ELSE "read"]
    /\ UNCHANGED <<item, tree, ret, lock, hist, calls>>

NextConc ==
    \E p \in Procs :
        \/ \E ver \in ConcVersions : Call(p, "Put", ver, Nil)
        \/ \E ver \in ConcVersions : Call(p, "Del", ver, Nil)
        \/ \E ver \in ConcVersions : Call(p, "Exp", ver, Nil)
        \/ Call(p, "Walk", Nil, Nil)
        \/ \E ver \in ConcVersions : Call(p, "Get", ver, Nil)
        \/ \E op \in ReadOps \ {"Get"} : Call(p, op, Nil, Nil)
        \/ \E i \in 1..Len(item) : Call(p, "ItemDel", Nil, i)
        \/ \E i \in 1..Len(item), op \in SeekOps : Call(p, op, Nil, i)
        \/ WLock(p)
        \/ PutNew(p)
        \/ PutInsert(p)
        \/ DelFind(p)
        \/ DeleteStep(p)
        \/ DetachStep(p)
        \/ ExpFind(p)
        \/ ExpStep(p)
        \/ WUnlock(p)
        \/ RLock(p)
        \/ WalkRead(p)
        \/ ListRead(p)
        \/ SeekRead(p)
        \/ RUnlock(p)
        \/ ItemCheck(p)
        \/ ItemEval(p)
        \/ ItemDefer(p)

SpecConc == InitConc /\ [][NextConc]_vars

\* The items and the tree after the calls of h, made one at a time, in order, on
\* the list the goroutines start on.
ReplayStep(b, c) ==
    CASE c.op = "Put" -> ListPut(b.item, b.tree, c.ver, 1)
      [] c.op = "Del" -> ListDel(b.item, b.tree, c.ver, "Exact")
      [] c.op = "Exp" -> [item |-> b.item,
                          tree |-> ListExp(b.item, b.tree, c.ver, "Exact").tree]
      [] c.op = "ItemDel" -> ItemDelete(b.item, b.tree, c.i)

RECURSIVE Replay(_)
Replay(h) ==
    IF h = <<>> THEN ConcStart
    ELSE ReplayStep(Replay(SubSeq(h, 1, Len(h) - 1)), h[Len(h)])

\* ------------------------------------------------------------ observations
\* The items held by the nodes reachable from the root, read off the nodes
\* without the tree's own search or iteration.
RECURSIVE NodeItems(_, _)
NodeItems(nodes, n) ==
    {nodes[n].items[j] : j \in 1..Len(nodes[n].items)}
        \cup UNION {NodeItems(nodes, nodes[n].children[c]) :
                        c \in 1..Len(nodes[n].children)}

Stored(t) == IF t.root = Nil THEN {} ELSE NodeItems(t.nodes, t.root)
StoredVers(I, t) == {I[i].ver : i \in Stored(t)}

\* The one item of S that P picks out, or Nil.
TheOne(S, P(_)) == IF \E i \in S : P(i) THEN CHOOSE i \in S : P(i) ELSE Nil

\* What a seek is to resolve to among the items S, by the meaning of the method.
Seek(I, S, v, meth) ==
    CASE meth = "Exact" -> TheOne(S, LAMBDA i : I[i].ver = v)
      [] meth = "Prev" ->
             TheOne(S, LAMBDA i : I[i].ver < v
                          /\ \A j \in S : I[j].ver < v => I[j].ver <= I[i].ver)
      [] meth = "Next" ->
             TheOne(S, LAMBDA i : I[i].ver > v
                          /\ \A j \in S : I[j].ver > v => I[j].ver >= I[i].ver)
      [] meth = "Upto" ->
             TheOne(S, LAMBDA i : I[i].ver <= v
                          /\ \A j \in S : I[j].ver <= v => I[j].ver <= I[i].ver)

\* ------------------------------------------------------------------ claims
\* C1: for every content of the list and every version v, Get(v, Exact) is the
\* entry at v, Get(v, Prev) the entry with the greatest version below v,
\* Get(v, Next) the entry with the smallest version above v (an entry at v is
\* skipped by both), Get(v, Upto) the entry with the greatest version at or below
\* v, and each is nil exactly when there is no such entry.
C1_SeekCorrect ==
    /\ \A v \in ReadVersions, meth \in {"Exact", "Prev", "Next", "Upto"} :
           find(item, tree, v, meth) = Seek(item, Stored(tree), v, meth)
    /\ ret.op = "Get" => ret.res \in Stored(tree) \cup {Nil}

\* A Get on a tree of more than one node returned the entry just below a stored
\* version: the entry at that version was skipped.
C1_Witness ==
    /\ ret.op = "Get"
    /\ ret.res # Nil
    /\ Len(tree.nodes) > 1
    /\ \E v \in StoredVers(item, tree) :
           /\ find(item, tree, v, "Prev") = ret.res
           /\ find(item, tree, v, "Exact") # Nil
           /\ item[ret.res].ver < v

\* C2: Get(v, Nearest) is the entry Upto resolves to when there is one, else the
\* entry Next resolves to; it is nil only when the list is empty.
C2_NearestPrefersPast ==
    \A v \in ReadVersions :
        LET upto == Seek(item, Stored(tree), v, "Upto")
            next == Seek(item, Stored(tree), v, "Next")
            near == find(item, tree, v, "Nearest")
        IN  /\ near = IF upto # Nil THEN upto ELSE next
            /\ near = Nil <=> Stored(tree) = {}

\* A Get returned the entry below a version that also has an entry above it.
C2_Witness ==
    /\ ret.op = "Get"
    /\ ret.res # Nil
    /\ \E v \in ReadVersions :
           /\ find(item, tree, v, "Nearest") = ret.res
           /\ item[ret.res].ver < v
           /\ find(item, tree, v, "Next") # Nil

\* The number of item slots in the nodes reachable from the root.
RECURSIVE NodeSlots(_, _)
RECURSIVE SlotsOf(_, _)
NodeSlots(nodes, n) == Len(nodes[n].items) + SlotsOf(nodes, nodes[n].children)
SlotsOf(nodes, ch) ==
    IF ch = <<>> THEN 0 ELSE NodeSlots(nodes, Head(ch)) + SlotsOf(nodes, Tail(ch))

Slots(t) == IF t.root = Nil THEN 0 ELSE NodeSlots(t.nodes, t.root)

\* C3: after any sequence of calls the list holds at most one entry per version;
\* a Put(v, b) on a list that holds v does not increase Len(), and after it
\* Get(v, Exact) returns one entry, whose value is b.
C3_OneEntryPerVersion ==
    /\ Slots(tree) = Cardinality(StoredVers(item, tree))
    /\ \A v \in TreeVersions, b \in Values :
           LET r == ListPut(item, tree, v, b)
               e == find(r.item, r.tree, v, "Exact")
           IN  /\ v \in StoredVers(item, tree) => TreeLen(r.tree) <= TreeLen(tree)
               /\ e # Nil
               /\ r.item[e].val = b
               /\ {i \in Stored(r.tree) : r.item[i].ver = v} = {e}
               /\ Slots(r.tree) = Cardinality(StoredVers(r.item, r.tree))

\* A Put has just replaced the entry of a version in a tree of more than one
\* node: the entry put before for that version is no longer stored.
C3_Witness ==
    /\ ret.op = "Put"
    /\ Len(tree.nodes) > 1
    /\ \E i \in 1..(ret.res - 1) :
           /\ item[i].ver = item[ret.res].ver
           /\ i \notin Stored(tree)
    /\ find(item, tree, item[ret.res].ver, "Exact") = ret.res
    /\ TreeLen(tree) < Len(item)

\* C4: a Put(v, b) on a list that holds an entry e for v replaces the value in
\* place: the Put returns e, a later Get(v, Exact) returns e, and e.Val() is b.
C4_ReplacedInPlace ==
    \A v \in Versions, b \in Values :
        LET e == find(item, tree, v, "Exact")
            r == ListPut(item, tree, v, b)
        IN  e # Nil =>
                /\ r.res = e
                /\ find(r.item, r.tree, v, "Exact") = e
                /\ r.item[e].val = b

\* C5: an Exp(v, meth) whose seek resolves an entry t removes every entry with a
\* version at or below t's and no other, and returns t as it was; Min() is then
\* the entry with the smallest version above t's. When the seek resolves nothing
\* it returns nil and changes nothing.
C5_ExpRemovesUpToTarget ==
    \A v \in TreeVersions, meth \in Methods :
        LET t == find(item, tree, v, meth)
            r == ListExp(item, tree, v, meth)
        IN  IF t # Nil
            THEN /\ ~r.panicked
                 /\ r.res = t
                 /\ Stored(r.tree) = {i \in Stored(tree) : item[i].ver > item[t].ver}
                 /\ TreeMin(r.tree) = Seek(item, Stored(tree), item[t].ver, "Next")
            ELSE /\ r.res = Nil
                 /\ r.tree = tree

\* C6: the entry a successful Exp returns is detached: its owner is cleared, its
\* Prev() and Next() return nil and its Del() changes nothing.
C6_ExpReturnsDetached ==
    ret.op = "Exp" /\ ret.res # Nil =>
        /\ item[ret.res].list = NilList
        /\ ItemPrevResult(item, tree, ret.res) = Nil
        /\ ItemNextResult(item, tree, ret.res) = Nil
        /\ ItemDelete(item, tree, ret.res).tree = tree

\* C7: Del(v, meth) removes the entry Get(v, meth) returns in the same state and
\* no other, returns it with its owner cleared, and Len() goes down by one; when
\* the seek resolves nothing it returns nil and changes nothing.
C7_DelRemovesWhatGetFinds ==
    \A v \in TreeVersions, meth \in Methods :
        LET upto == Seek(item, Stored(tree), v, "Upto")
            g == IF meth # "Nearest" THEN Seek(item, Stored(tree), v, meth)
                 ELSE IF upto # Nil THEN upto
                 ELSE Seek(item, Stored(tree), v, "Next")
            r == ListDel(item, tree, v, meth)
        IN  /\ r.res = g
            /\ IF g # Nil
               THEN /\ Stored(r.tree) = Stored(tree) \ {g}
                    /\ g \in Stored(tree)
                    /\ TreeLen(r.tree) = TreeLen(tree) - 1
                    /\ r.item = [item EXCEPT ![g].list = NilList]
               ELSE r.item = item /\ r.tree = tree

\* A Del has just removed one entry of a tree of more than one node and left
\* the others.
C7_Witness ==
    /\ ret.op = "Del"
    /\ ret.res # Nil
    /\ item[ret.res].list = NilList
    /\ ret.res \notin Stored(tree)
    /\ Cardinality(Stored(tree)) >= MaxNodeItems
    /\ \E i \in Stored(tree) : item[i].ver < item[ret.res].ver
    /\ \E i \in Stored(tree) : item[i].ver > item[ret.res].ver

\* The call at which the visitor fn first answers b among its first n calls, or 0.
FirstAnswer(fn, n, b) ==
    IF \E k \in 1..n : fn[k] = b
    THEN CHOOSE k \in 1..n : fn[k] = b /\ \A j \in 1..(k - 1) : fn[j] # b
    ELSE 0

\* How many calls Walk makes of a visitor when it stops at the visitor's first
\* answer b, and makes one call per stored entry when there is no such answer.
WalkStopsAt(b) ==
    \A fn \in Visitors(MaxScript) :
        LET vis == WalkVisits(item, tree, fn)
            n == Cardinality(Stored(tree))
            k == FirstAnswer(fn, n, b)
        IN  IF k = 0
            THEN Len(vis) = n /\ {vis[j] : j \in 1..n} = Stored(tree)
            ELSE Len(vis) = k

\* C8 as stated: Walk goes on while the visitor returns true and stops the first
\* time it returns false.
C8_WalkStopsOnFalse == WalkStopsAt(FALSE)

\* C8 amended: Walk goes on while the visitor returns false and stops the first
\* time it returns true: a visitor that always returns false is called on every
\* stored entry, one that returns true at its k-th call is called k times.
C8_WalkStopsOnTrue == WalkStopsAt(TRUE)

\* A Walk was stopped by its visitor before the last stored entry.
C8_Witness ==
    /\ ret.op = "Walk"
    /\ Len(ret.visited) >= 2
    /\ Len(ret.visited) < Cardinality(Stored(tree))
    /\ Len(tree.nodes) > 1

\* C9: after any sequence of Put, Del, Exp, Clr and Entry.Del calls, a Walk that
\* is not stopped visits every stored entry once, from the smallest version, in
\* strictly increasing order of version.
C9_WalkAscending ==
    LET vis == WalkVisits(item, tree, NeverTrue(MaxTreeAlloc))
    IN  /\ Len(vis) = Cardinality(Stored(tree))
        /\ {vis[k] : k \in 1..Len(vis)} = Stored(tree)
        /\ \A k \in 1..(Len(vis) - 1) : item[vis[k]].ver < item[vis[k + 1]].ver
        /\ vis # <<>> => \A i \in Stored(tree) : item[vis[1]].ver <= item[i].ver
        /\ ret.op = "Walk" => ret.visited = vis

\* A Walk has visited the entries of a tree of more than one node.
C9_Witness ==
    /\ ret.op = "Walk"
    /\ Len(ret.visited) > MaxNodeItems
    /\ Len(tree.nodes) > 1

\* C10: after Clr the list is empty and the entries obtained before it keep their
\* owner; the Prev() and Next() of an entry that has its owner are nil while the
\* list is empty and otherwise its version's neighbours among the entries the
\* list holds now, and its Del() takes its version out of the list as it is now.
C10_ClrKeepsOwners ==
    LET r == ListClr(item, tree)
    IN  /\ Stored(r.tree) = {}
        /\ TreeLen(r.tree) = 0
        /\ r.item = item
        /\ \A i \in 1..Len(item) :
               r.item[i].list = TheList =>
                   /\ ItemPrevResult(r.item, r.tree, i) = Nil
                   /\ ItemNextResult(r.item, r.tree, i) = Nil
        /\ \A i \in 1..Len(item) :
               item[i].list = TheList =>
                   /\ ItemPrevResult(item, tree, i)
                          = Seek(item, Stored(tree), item[i].ver, "Prev")
                   /\ ItemNextResult(item, tree, i)
                          = Seek(item, Stored(tree), item[i].ver, "Next")
                   /\ StoredVers(item, ItemDelete(item, tree, i).tree)
                          = StoredVers(item, tree) \ {item[i].ver}

\* A Clr has just emptied a list, and an entry put before it still has its owner.
C10_Witness ==
    /\ ret.op = "Clr"
    /\ \E i \in 1..Len(item) : item[i].list = TheList

\* C11: Del() on an entry that has its owner leaves it out of the list and clears
\* its owner; a second Del() on it returns it and changes neither an item nor the
\* list, also when its version was put again between the two calls.
C11_SecondDelIsNoOp ==
    \A i \in 1..Len(item) :
        LET r == ItemDelete(item, tree, i)
            again == ItemDelete(r.item, r.tree, i)
        IN  /\ r.res = i
            /\ i \notin Stored(r.tree)
            /\ r.item[i].list = NilList
            /\ \A j \in 1..Len(item) : j # i => r.item[j] = item[j]
            /\ item[i].list = NilList => r.item = item /\ r.tree = tree
            /\ again.res = i /\ again.item = r.item /\ again.tree = r.tree
            /\ \A b \in Values :
                   LET p == ListPut(r.item, r.tree, item[i].ver, b)
                       after == ItemDelete(p.item, p.tree, i)
                   IN  /\ after.res = i
                       /\ after.item = p.item
                       /\ after.tree = p.tree
                       /\ find(after.item, after.tree, item[i].ver, "Exact") = p.res

\* An Item.Del has just returned an entry that was detached before the call,
\* while the list holds another entry for its version.
C11_Witness ==
    /\ ret.op = "ItemDel"
    /\ item[ret.res].list = NilList
    /\ \E j \in Stored(tree) : j # ret.res /\ item[j].ver = item[ret.res].ver
    /\ Cardinality(Stored(tree)) > 1

\* C12: the Prev() and Next() of an entry that has its owner are what Get resolves
\* for its version by Prev and by Next in the list as it is now; those of an entry
\* without owner, as List.Del and Item.Del return it, are nil.
C12_ItemSeeksLikeGet ==
    /\ \A i \in 1..Len(item) :
           IF item[i].list = TheList
           THEN /\ ItemPrevResult(item, tree, i) = find(item, tree, item[i].ver, "Prev")
                /\ ItemNextResult(item, tree, i) = find(item, tree, item[i].ver, "Next")
                /\ ItemPrevResult(item, tree, i)
                       = Seek(item, Stored(tree), item[i].ver, "Prev")
                /\ ItemNextResult(item, tree, i)
                       = Seek(item, Stored(tree), item[i].ver, "Next")
           ELSE /\ ItemPrevResult(item, tree, i) = Nil
                /\ ItemNextResult(item, tree, i) = Nil
    /\ ret.op \in {"Del", "ItemDel"} /\ ret.res # Nil =>
           /\ item[ret.res].list = NilList
           /\ ItemPrevResult(item, tree, ret.res) = Nil
           /\ ItemNextResult(item, tree, ret.res) = Nil

\* A Del has just returned an entry, now without owner, whose version has stored
\* entries below and above it.
C12_Witness ==
    /\ ret.op = "Del"
    /\ ret.res # Nil
    /\ find(item, tree, item[ret.res].ver, "Prev") # Nil
    /\ find(item, tree, item[ret.res].ver, "Next") # Nil
    /\ \E i \in Stored(tree) : ItemPrevResult(item, tree, i) # Nil

\* C13: in every reachable state Len() is the number of stored entries, Min() the
\* entry with the smallest stored version and Max() the one with the largest;
\* on an empty list Min() and Max() are nil and Len() is 0.
C13_LenMinMax ==
    /\ TreeLen(tree) = Cardinality(Stored(tree))
    /\ TreeMin(tree) = TheOne(Stored(tree),
           LAMBDA i : \A j \in Stored(tree) : item[i].ver <= item[j].ver)
    /\ TreeMax(tree) = TheOne(Stored(tree),
           LAMBDA i : \A j \in Stored(tree) : item[i].ver >= item[j].ver)
    /\ Stored(tree) = {} =>
           TreeMin(tree) = Nil /\ TreeMax(tree) = Nil /\ TreeLen(tree) = 0
    /\ ret.op = "Len" => ret.res = Cardinality(Stored(tree))
    /\ ret.op = "Min" => ret.res = TreeMin(tree)
    /\ ret.op = "Max" => ret.res = TreeMax(tree)

\* A Min has just returned the smallest entry of a tree of more than one node,
\* which is not in the root.
C13_Witness ==
    /\ ret.op = "Min"
    /\ ret.res # Nil
    /\ Len(tree.nodes) > 1
    /\ \A j \in Stored(tree) : item[ret.res].ver <= item[j].ver
    /\ TreeMax(tree) # ret.res


\* C14: whenever no goroutine is inside a Put, Del, Exp or Item.Del of the list,
\* the items and the tree are those the calls that have taken the mutex so far
\* produce when made one at a time in the order they took it, and a Walk visits
\* exactly the entries of that result in strictly ascending order of version.
C14_WritersSerialised ==
    lock.writer = Nil =>
        LET vis == WalkVisits(item, tree, NeverTrue(MaxCalls + MaxConcVer))
        IN  /\ item = Replay(hist).item
            /\ tree = Replay(hist).tree
            /\ {vis[k] : k \in 1..Len(vis)} = Stored(Replay(hist).tree)
            /\ \A k \in 1..(Len(vis) - 1) : item[vis[k]].ver < item[vis[k + 1]].ver

\* Two writers have finished, one of them a Put and one an Exp or a Del that
\* removed an entry, and a third call made meanwhile waits for the mutex they
\* released.
C14_Witness ==
    /\ lock.writer = Nil
    /\ Len(hist) = 2
    /\ \E k \in 1..2 : hist[k].op = "Put"
    /\ \E k \in 1..2 : hist[k].op \in {"Del", "Exp"}
    /\ ret.op \in {"Del", "Exp"}
    /\ ret.res # Nil
    /\ \E p \in Procs : proc[p].pc = "lock" /\ proc[p].op \in {"Put", "Del", "Exp"}

\* The tree is one that some number of the calls that have taken the mutex, made
\* one at a time in that order, leave behind.
BetweenCalls == \E n \in 0..Len(hist) : tree = Replay(SubSeq(hist, 1, n)).tree

\* C15: from taking the mutex to releasing it an Exp excludes every reader, and
\* a goroutine that holds the mutex for reading (in Get, Len, Min, Max, Walk,
\* Item.Prev or Item.Next) sees a tree left by whole calls, never one with part of an Exp's
\* range removed.
C15_ExpAtomicForReaders ==
    /\ \A p \in Procs :
           proc[p].op = "Exp" /\ proc[p].pc \in {"body", "expunge", "unlock"} =>
               lock.writer = p /\ lock.readers = {}
    /\ \A q \in Procs :
           proc[q].pc \in {"read", "rdefer", "runlock"} =>
               q \in lock.readers /\ lock.writer = Nil /\ BetweenCalls

\* An Exp has removed one of the two entries of its range and not yet the other,
\* while a reader waits for the mutex.
C15_Witness ==
    \E p, q \in Procs :
        /\ proc[p].op = "Exp"
        /\ proc[p].pc = "expunge"
        /\ Len(proc[p].trace) = 1
        /\ Cardinality(Stored(tree)) = 1
        /\ ~BetweenCalls
        /\ proc[q].pc = "rlock"

\* C16: a Get by any mode and of any version, a Len, a Min, a Max and a Walk with
\* any visitor leave the items (version, value and owner of each) and the tree
\* as they were.
C16_ReadsChangeNothing ==
    [][ret'.op \in {"Get", "Len", "Min", "Max", "Walk"} =>
           item' = item /\ tree' = tree]_vars

\* A Get has found an entry in a tree of more than one node.
C16_Witness ==
    /\ ret.op = "Get"
    /\ ret.res \in Stored(tree)
    /\ Len(tree.nodes) > 1

\* C17: Set(val) on any entry, stored or not, returns that entry and changes
\* nothing but its value: its version and owner, every other entry, the tree,
\* Len() and the order a Walk visits are as before, and when the entry is the one
\* stored for its version, Get(e.Ver(), Exact) then has the new value.
C17_SetChangesOnlyValue ==
    \A i \in 1..Len(item), val \in Values :
        LET r == ItemSetResult(item, tree, i, val)
        IN  /\ r.res = i
            /\ Len(r.item) = Len(item)
            /\ r.item[i] = [item[i] EXCEPT !.val = val]
            /\ \A j \in 1..Len(item) : j # i => r.item[j] = item[j]
            /\ r.tree = tree
            /\ TreeLen(r.tree) = TreeLen(tree)
            /\ WalkVisits(r.item, r.tree, NeverTrue(MaxAlloc))
                   = WalkVisits(item, tree, NeverTrue(MaxAlloc))
            /\ i \in Stored(tree) =>
                   /\ find(r.item, r.tree, item[i].ver, "Exact") = i
                   /\ r.item[find(r.item, r.tree, item[i].ver, "Exact")].val = val

\* Set has given a stored entry a value other than the one it was put with, in
\* a list that holds another entry too.
C17_Witness ==
    /\ ret.op = "ItemSet"
    /\ ret.res \in Stored(tree)
    /\ Cardinality(Stored(tree)) > 1
    /\ item[ret.res].val = MaxVal
    /\ \E j \in Stored(tree) : item[j].val # MaxVal

\* C18: an Item.Del, Item.Prev or Item.Next running while another goroutine
\* detaches its receiver never dereferences a nil i.list, and once every call has
\* returned the mutex is free.
C18_NoFaultLockReleased ==
    /\ \A p \in Procs : proc[p].pc # "fault"
    /\ (\A p \in Procs : proc[p].pc = "idle") =>
           lock = [writer |-> Nil, readers |-> {}]


\* C19: Del() of an entry that still has its owner but is not the entry the list
\* stores removes nothing: the stored entries and Len() are as before.
C19_DelRemovesOnlyReceiver ==
    \A i \in 1..Len(item) :
        item[i].list = TheList /\ i \notin Stored(tree) =>
            /\ Stored(ItemDelete(item, tree, i).tree) = Stored(tree)
            /\ TreeLen(ItemDelete(item, tree, i).tree) = TreeLen(tree)

\* C20: every entry the tree stores has the list as its owner; so has every
\* entry a Get, a Min, a Max, an Item.Prev or an Item.Next would return now, the
\* entry a Put has just returned, and every stored entry a Walk has visited.
C20_StoredHaveOwner ==
    /\ \A i \in Stored(tree) : item[i].list = TheList
    /\ \A ver \in TreeVersions, meth \in Methods :
           find(item, tree, ver, meth) # Nil =>
               /\ find(item, tree, ver, meth) \in Stored(tree)
               /\ item[find(item, tree, ver, meth)].list = TheList
    /\ TreeMin(tree) # Nil => item[TreeMin(tree)].list = TheList
    /\ TreeMax(tree) # Nil => item[TreeMax(tree)].list = TheList
    /\ \A i \in 1..Len(item) :
           /\ ItemPrevResult(item, tree, i) # Nil =>
                  item[ItemPrevResult(item, tree, i)].list = TheList
           /\ ItemNextResult(item, tree, i) # Nil =>
                  item[ItemNextResult(item, tree, i)].list = TheList
    /\ ret.op = "Put" => ret.res \in Stored(tree) /\ item[ret.res].list = TheList
    /\ ret.op = "Walk" =>
           \A k \in 1..Len(ret.visited) : item[ret.visited[k]].list = TheList

\* An Item.Del has detached its receiver, and the tree, of more than one node,
\* still stores three entries.
C20_Witness ==
    /\ ret.op = "ItemDel"
    /\ item[ret.res].list = NilList
    /\ Cardinality(Stored(tree)) = 3
    /\ Len(tree.nodes) > 1
====
